---- MODULE Spec2Model ----
(***************************************************************************)
(* Model of workspace-mcp/run_server.py: the bootstrap main(), the pure    *)
(* helper _split_services, and the HTTP route handlers main() registers.   *)
(*                                                                         *)
(* Strings the code inspects character by character (environment values,   *)
(* tokens, messages) are sequences of one-character strings; fixed text of *)
(* the program (URL prefixes, message templates) appears as literal chunks.*)
(***************************************************************************)
EXTENDS Integers, Sequences, FiniteSets, TLC

VARIABLES pc, env, calls, tool_tier, services_filter, services_to_import,
          idx, port, handled, twin, authSent, splitRaw, splitOut

mainVars == <<pc, env, calls, tool_tier, services_filter, services_to_import, idx, port>>
reqVars == <<handled, twin, authSent>>
splitVars == <<splitRaw, splitOut>>
vars == <<pc, env, calls, tool_tier, services_filter, services_to_import,
          idx, port, handled, twin, authSent, splitRaw, splitOut>>

\* An optional value (Python's None or a value) is a sequence of at most one
\* element, so that None differs from every value, the empty string included.
None == <<>>
Some(v) == <<v>>

\* Longest input string _split_services is first applied to, and the longest
\* mix of separators a rewriting puts in the place of a separator.
MaxLen == 4
MaxMix == 2

----------------------------------------------------------------------------
\* Characters and strings

\* Whitespace as str.split() and str.strip() without arguments see it.
Whitespace == {" ", "\t", "\n"}
Comma == ","
Separators == Whitespace \cup {Comma}
Letters == {"a", "b"}
Alphabet == Letters \cup {Comma, " ", "\t"}

RECURSIVE Concat(_)
Concat(ss) == IF ss = <<>> THEN <<>> ELSE Head(ss) \o Concat(Tail(ss))

Range(s) == {s[i] : i \in 1..Len(s)}

\* str.replace(old, new) for a one-character old
Replace(s, old, new) == [i \in 1..Len(s) |-> IF s[i] = old THEN new ELSE s[i]]

\* str.strip() with no argument
RECURSIVE LStrip(_)
LStrip(s) == IF s # <<>> /\ Head(s) \in Whitespace THEN LStrip(Tail(s)) ELSE s

RECURSIVE RStrip(_)
RStrip(s) ==
    IF s # <<>> /\ s[Len(s)] \in Whitespace THEN RStrip(SubSeq(s, 1, Len(s) - 1)) ELSE s

Strip(s) == RStrip(LStrip(s))

\* str.split() with no argument: scan left to right, cut at whitespace runs,
\* never yield an empty word.  cur is the word being accumulated.
RECURSIVE SplitScan(_, _)
SplitScan(s, cur) ==
    IF s = <<>> THEN (IF cur = <<>> THEN <<>> ELSE <<cur>>)
    ELSE IF Head(s) \in Whitespace
         THEN (IF cur = <<>> THEN <<>> ELSE <<cur>>) \o SplitScan(Tail(s), <<>>)
         ELSE SplitScan(Tail(s), Append(cur, Head(s)))

Split(s) == SplitScan(s, <<>>)

_split_services_whitespace_only(raw) ==
    LET parts == [i \in 1..Len(Split(raw)) |-> Strip(Split(raw)[i])]
    IN  SelectSeq(parts, LAMBDA p : p # <<>>)

_split_services(raw) ==
    LET replaced == Replace(raw, Comma, " ")
        parts == [i \in 1..Len(Split(replaced)) |-> Strip(Split(replaced)[i])]
    IN  SelectSeq(parts, LAMBDA p : p # <<>>)

\* int(text): surrounding whitespace is ignored, the rest must be decimal digits.
Digits == {"0", "1", "2", "3", "4", "5", "6", "7", "8", "9"}
DigitVal(c) == CASE c = "0" -> 0 [] c = "1" -> 1 [] c = "2" -> 2 [] c = "3" -> 3
                 [] c = "4" -> 4 [] c = "5" -> 5 [] c = "6" -> 6 [] c = "7" -> 7
                 [] c = "8" -> 8 [] c = "9" -> 9

RECURSIVE DecValue(_, _)
DecValue(s, acc) == IF s = <<>> THEN acc ELSE DecValue(Tail(s), 10 * acc + DigitVal(Head(s)))

\* None stands for the ValueError int() raises.
int(text) ==
    LET t == Strip(text)
    IN  IF t = <<>> \/ \E i \in 1..Len(t) : t[i] \notin Digits
        THEN None
        ELSE Some(DecValue(t, 0))

\* os.getenv(name, default): the value when the variable is set (even to the
\* empty string), the default otherwise.
getenv(e, name, default) == IF e[name] = None THEN default ELSE e[name][1]

----------------------------------------------------------------------------
\* The service names and the modules they import

gmail == <<"g", "m", "a", "i", "l">>
drive == <<"d", "r", "i", "v", "e">>
calendar == <<"c", "a", "l", "e", "n", "d", "a", "r">>
docs == <<"d", "o", "c", "s">>
sheets == <<"s", "h", "e", "e", "t", "s">>
chat == <<"c", "h", "a", "t">>
forms == <<"f", "o", "r", "m", "s">>
slides == <<"s", "l", "i", "d", "e", "s">>
tasks == <<"t", "a", "s", "k", "s">>
search == <<"s", "e", "a", "r", "c", "h">>
\* a name that is not a key of tool_imports
foo == <<"f", "o", "o">>

\* list(tool_imports.keys()): insertion order
tool_imports_keys == <<gmail, drive, calendar, docs, sheets, chat, forms, slides, tasks, search>>

tool_imports(s) ==
    CASE s = gmail -> "gmail.gmail_tools"
      [] s = drive -> "gdrive.drive_tools"
      [] s = calendar -> "gcalendar.calendar_tools"
      [] s = docs -> "gdocs.docs_tools"
      [] s = sheets -> "gsheets.sheets_tools"
      [] s = chat -> "gchat.chat_tools"
      [] s = forms -> "gforms.forms_tools"
      [] s = slides -> "gslides.slides_tools"
      [] s = tasks -> "gtasks.tasks_tools"
      [] s = search -> "gsearch.search_tools"

----------------------------------------------------------------------------
\* main(): one action per statement that calls into the library

\* The environments explored.  Every variable is None (unset) or Some(text).
TierValues == {None, Some(<<" ">>), Some(<<" ", "c", "o", "r", "e", "\t">>)}
ToolsValues == {None, Some(<<" ", ",">>), Some(gmail \o <<",">> \o foo),
                Some(<<" ">> \o drive \o <<",", " ">> \o gmail \o <<" ">> \o drive \o <<"\n">>)}
PortValues == {None, Some(<<>>), Some(<<"8", "0">>)}
WorkspacePortValues == {None, Some(<<>>), Some(<<"9", "0", "0", "1">>)}
ClientIdValues == {None, Some(<<"env-client">>)}

Environments ==
    [TOOL_TIER : TierValues, TOOLS : ToolsValues, PORT : PortValues,
     WORKSPACE_MCP_PORT : WorkspacePortValues, GOOGLE_OAUTH_CLIENT_ID : ClientIdValues,
     stateless : BOOLEAN]

\* The environments under which request handling is explored as well
ServeEnvironments ==
    {e \in Environments :
        /\ e.TOOL_TIER = None /\ ~e.stateless /\ e.WORKSPACE_MCP_PORT = None
        /\ e.PORT \in {None, Some(<<>>)}
        /\ e.TOOLS \in {None, Some(gmail \o <<",">> \o foo)}}

\* What resolve_tools_from_tier may return: (tier_tools, suggested_services)
TierResults == { <<<<"list_a", "send_b", "list_a">>, <<gmail, foo>>>>,
                 <<<<>>, <<>>>> }

\* The routes in registration order
Routes == << "/.well-known/oauth-protected-resource",
             "/.well-known/oauth-authorization-server",
             "/.well-known/oauth-client",
             "/oauth2/authorize-handoff",
             "/oauth2/token",
             "/oauth2/register",
             "/oauth2callback-handoff" >>

OrIsNone(x, y) == IF x = None THEN y ELSE x[1]

\* x or y on optional lists: an empty list is falsy like None
Or(x, y) == IF x = None \/ x[1] = <<>> THEN y ELSE x[1]

Call(c) == calls' = Append(calls, c)

ReloadOauthConfig ==
    /\ pc = "reload_oauth_config"
    /\ Call(<<"reload_oauth_config">>)
    /\ pc' = "configure_file_logging"
    /\ UNCHANGED <<env, tool_tier, services_filter, services_to_import, idx, port>>
    /\ UNCHANGED <<reqVars, splitVars>>

ConfigureFileLogging ==
    /\ pc = "configure_file_logging"
    /\ Call(<<"configure_file_logging">>)
    /\ pc' = "credentials_check"
    /\ UNCHANGED <<env, tool_tier, services_filter, services_to_import, idx, port>>
    /\ UNCHANGED <<reqVars, splitVars>>

CheckCredentialsAlways ==
    /\ pc = "credentials_check"
    /\ Call(<<"check_credentials_directory_permissions">>)
    /\ pc' = "tool_selection"
    /\ UNCHANGED <<env, tool_tier, services_filter, services_to_import, idx, port>>
    /\ UNCHANGED <<reqVars, splitVars>>

CheckCredentials ==
    /\ pc = "credentials_check"
    /\ IF ~env.stateless
       THEN Call(<<"check_credentials_directory_permissions">>)
       ELSE UNCHANGED calls
    /\ pc' = "tool_selection"
    /\ UNCHANGED <<env, tool_tier, services_filter, services_to_import, idx, port>>
    /\ UNCHANGED <<reqVars, splitVars>>

\* tool_tier = (os.getenv("TOOL_TIER") or "").strip() or None
ParseTier(e) ==
    LET t == Strip(IF e.TOOL_TIER = None THEN <<>> ELSE e.TOOL_TIER[1])
    IN  IF t = <<>> THEN None ELSE Some(t)

\* services_raw / services_filter
ParseFilter(e) ==
    LET services_raw == Strip(IF e.TOOLS = None THEN <<>> ELSE e.TOOLS[1])
    IN  IF services_raw # <<>> THEN Some(_split_services(services_raw)) ELSE None

ToolSelectionEnv ==
    /\ pc = "tool_selection"
    /\ tool_tier' = ParseTier(env)
    /\ services_filter' = ParseFilter(env)
    /\ pc' = "set_transport_mode"
    /\ UNCHANGED <<env, calls, services_to_import, idx, port>>
    /\ UNCHANGED <<reqVars, splitVars>>

SetTransportMode ==
    /\ pc = "set_transport_mode"
    /\ Call(<<"set_transport_mode", "streamable-http">>)
    /\ pc' = "configure_server_for_http"
    /\ UNCHANGED <<env, tool_tier, services_filter, services_to_import, idx, port>>
    /\ UNCHANGED <<reqVars, splitVars>>

ConfigureServerForHttp ==
    /\ pc = "configure_server_for_http"
    /\ Call(<<"configure_server_for_http">>)
    /\ pc' = "enable_tools"
    /\ UNCHANGED <<env, tool_tier, services_filter, services_to_import, idx, port>>
    /\ UNCHANGED <<reqVars, splitVars>>

\* if tool_tier: ... else: ...
EnableTools ==
    /\ pc = "enable_tools"
    /\ IF tool_tier # None
       THEN \E r \in TierResults :
              /\ calls' = calls \o << <<"resolve_tools_from_tier", tool_tier[1], services_filter, r>>,
                                      <<"set_enabled_tool_names", Some(Range(r[1]))>> >>
              /\ services_to_import' = Or(services_filter, r[2])
       ELSE /\ services_to_import' = Or(services_filter, tool_imports_keys)
            /\ Call(<<"set_enabled_tool_names", None>>)
    /\ pc' = "wrap_server_tool_method"
    /\ UNCHANGED <<env, tool_tier, services_filter, idx, port>>
    /\ UNCHANGED <<reqVars, splitVars>>

WrapServerToolMethod ==
    /\ pc = "wrap_server_tool_method"
    /\ Call(<<"wrap_server_tool_method", "server">>)
    /\ pc' = "set_enabled_services_for_scopes"
    /\ UNCHANGED <<env, tool_tier, services_filter, services_to_import, idx, port>>
    /\ UNCHANGED <<reqVars, splitVars>>

SetEnabledServicesForScopes ==
    /\ pc = "set_enabled_services_for_scopes"
    /\ Call(<<"set_enabled_services_for_scopes", services_to_import>>)
    /\ pc' = "import_tools"
    /\ idx' = 1
    /\ UNCHANGED <<env, tool_tier, services_filter, services_to_import, port>>
    /\ UNCHANGED <<reqVars, splitVars>>

InKeysButLast(s) == s \in Range(SubSeq(tool_imports_keys, 1, Len(tool_imports_keys) - 1))

\* s in tool_imports
InKeys(s) == s \in Range(tool_imports_keys)

\* One iteration of: for s in services_to_import: if s in tool_imports: tool_imports[s]()
ImportTools ==
    /\ pc = "import_tools"
    /\ idx <= Len(services_to_import)
    /\ IF InKeys(services_to_import[idx])
       THEN Call(<<"import", tool_imports(services_to_import[idx])>>)
       ELSE UNCHANGED calls
    /\ idx' = idx + 1
    /\ UNCHANGED <<pc, env, tool_tier, services_filter, services_to_import, port>>
    /\ UNCHANGED <<reqVars, splitVars>>

FilterServerTools ==
    /\ pc = "import_tools"
    /\ idx > Len(services_to_import)
    /\ Call(<<"filter_server_tools", "server">>)
    /\ pc' = "custom_route"
    /\ idx' = 1
    /\ UNCHANGED <<env, tool_tier, services_filter, services_to_import, port>>
    /\ UNCHANGED <<reqVars, splitVars>>

\* One @server.custom_route(...) decoration
CustomRoute ==
    /\ pc = "custom_route"
    /\ idx <= Len(Routes)
    /\ Call(<<"custom_route", Routes[idx]>>)
    /\ idx' = idx + 1
    /\ pc' = IF idx = Len(Routes) THEN "port" ELSE pc
    /\ UNCHANGED <<env, tool_tier, services_filter, services_to_import, port>>
    /\ UNCHANGED <<reqVars, splitVars>>

\* port = int(os.getenv("PORT", os.getenv("WORKSPACE_MCP_PORT", "8000")))
PortText(e) == getenv(e, "PORT", getenv(e, "WORKSPACE_MCP_PORT", <<"8", "0", "0", "0">>))

ParsePort ==
    /\ pc = "port"
    /\ port' = int(PortText(env))
    /\ pc' = IF int(PortText(env)) = None THEN "raised" ELSE "server_run"
    /\ UNCHANGED <<env, calls, tool_tier, services_filter, services_to_import, idx>>
    /\ UNCHANGED <<reqVars, splitVars>>

ServerRun ==
    /\ pc = "server_run"
    /\ Call(<<"server.run", "streamable-http", "0.0.0.0", port[1]>>)
    /\ pc' = "serving"
    /\ UNCHANGED <<env, tool_tier, services_filter, services_to_import, idx, port>>
    /\ UNCHANGED <<reqVars, splitVars>>

MainStep ==
    \/ ReloadOauthConfig \/ ConfigureFileLogging \/ CheckCredentials \/ ToolSelectionEnv
    \/ SetTransportMode \/ ConfigureServerForHttp \/ EnableTools \/ WrapServerToolMethod
    \/ SetEnabledServicesForScopes \/ ImportTools \/ FilterServerTools \/ CustomRoute
    \/ ParsePort \/ ServerRun

----------------------------------------------------------------------------
\* Text helpers of the route handlers

\* html.escape(s) with quote=True
EscapeChar(c) ==
    CASE c = "&" -> "&amp;" [] c = "<" -> "&lt;" [] c = ">" -> "&gt;"
      [] c = "\"" -> "&quot;" [] c = "'" -> "&#x27;" [] OTHER -> c

html_escape(s) == [i \in 1..Len(s) |-> EscapeChar(s[i])]

\* urllib.parse.quote_plus, on the characters that occur
QuoteChar(c) ==
    CASE c = " " -> "+" [] c = ":" -> "%3A" [] c = "/" -> "%2F" [] c = "&" -> "%26"
      [] c = "=" -> "%3D" [] c = "<" -> "%3C" [] c = "@" -> "%40" [] OTHER -> c

quote_plus(s) == [i \in 1..Len(s) |-> QuoteChar(s[i])]

\* urlencode(dict): k=v items joined by "&", in the dict's insertion order
RECURSIVE urlencode(_)
urlencode(d) ==
    IF d = <<>> THEN <<>>
    ELSE quote_plus(<<d[1][1]>>) \o <<"=">> \o quote_plus(d[1][2])
         \o (IF Len(d) > 1 THEN <<"&">> \o urlencode(Tail(d)) ELSE <<>>)

\* str(x) inside an f-string, for an optional string
Str(x) == IF x = None THEN <<"None">> ELSE x[1]

\* Python truthiness of an optional string
Truthy(x) == x # None /\ x[1] # <<>>

\* A dict is a sequence of <<key, value>> pairs in insertion order.
HasKey(d, k) == \E i \in 1..Len(d) : d[i][1] = k
Get(d, k) == IF HasKey(d, k) THEN Some(d[CHOOSE i \in 1..Len(d) : d[i][1] = k][2]) ELSE None
SetItem(d, k, v) ==
    IF HasKey(d, k) THEN [i \in 1..Len(d) |-> IF d[i][1] = k THEN <<k, v>> ELSE d[i]]
    ELSE Append(d, <<k, v>>)
SetDefault(d, k, v) == IF HasKey(d, k) THEN d ELSE Append(d, <<k, v>>)

\* sorted() of a set of words, by code point
Lower == <<"a", "b", "c", "d", "e", "f", "g", "h", "i", "j", "k", "l", "m",
           "n", "o", "p", "q", "r", "s", "t", "u", "v", "w", "x", "y", "z">>
CodePoint(c) == CHOOSE i \in 1..Len(Lower) : Lower[i] = c

RECURSIVE LexLess(_, _)
LexLess(a, b) ==
    IF b = <<>> THEN FALSE
    ELSE IF a = <<>> THEN TRUE
    ELSE IF Head(a) = Head(b) THEN LexLess(Tail(a), Tail(b))
    ELSE CodePoint(Head(a)) < CodePoint(Head(b))

RECURSIVE sorted(_)
sorted(S) ==
    IF S = {} THEN <<>>
    ELSE LET m == CHOOSE x \in S : \A y \in S \ {x} : LexLess(x, y)
         IN  <<m>> \o sorted(S \ {m})

\* " ".join(words)
RECURSIVE join(_)
join(ws) ==
    IF ws = <<>> THEN <<>>
    ELSE Head(ws) \o (IF Len(ws) > 1 THEN <<" ">> \o join(Tail(ws)) ELSE <<>>)

\* config.get_oauth_base_url()
BaseUrl == <<"https", ":", "/", "/", "mcp.example">>
HandoffPath == <<"/", "oauth2callback-handoff">>

\* get_current_scopes(): the base scope and one scope per service handed to
\* set_enabled_services_for_scopes that the scope table knows
get_current_scopes(services) ==
    << <<"o", "p", "e", "n", "i", "d">> >> \o SelectSeq(services, InKeys)

----------------------------------------------------------------------------
\* Route handlers.  A request is its query_params dict; a handler run yields
\* the external calls it made, in order, and the response it returned.

HtmlResponse(content, status) == [status |-> status, body |-> content]
RedirectResponse(url, status) == [status |-> status, body |-> url]
\* An external call: its arguments, whether it returned (ok) or raised, and
\* what it returned where the handler uses it
ExtRet(fn, args, ok, ret) == [fn |-> fn, args |-> args, ok |-> ok, ret |-> ret]
Ext(fn, args, ok) == ExtRet(fn, args, ok, None)

DelegateRequests == { <<>>, << <<"resource", <<"m", "c", "p">>>> >> }
ExtResponses == { [status |-> 200, body |-> <<"{ext json}">>],
                  [status |-> 401, body |-> <<"{ext error}">>] }

NoRequest == [path |-> "", request |-> <<>>, calls |-> <<>>, response |-> HtmlResponse(<<>>, 0)]
NoTwin == [refresh_token |-> None, client_secret |-> <<>>, response |-> HtmlResponse(<<>>, 0)]

Registered(path) == \E i \in 1..Len(calls) : calls[i] = <<"custom_route", path>>

DelegateRewrapped(path, fn) ==
    /\ pc = "serving"
    /\ Registered(path)
    /\ \E request \in DelegateRequests, r \in ExtResponses :
         handled' = [path |-> path, request |-> request,
                     calls |-> <<ExtRet(fn, <<request>>, TRUE, Some(r))>>,
                     response |-> HtmlResponse(r.body, 200)]
    /\ twin' = NoTwin
    /\ UNCHANGED <<mainVars, authSent, splitVars>>

\* async def h(request): return await fn(request)
Delegate(path, fn) ==
    /\ pc = "serving"
    /\ Registered(path)
    /\ \E request \in DelegateRequests, r \in ExtResponses :
         handled' = [path |-> path, request |-> request,
                     calls |-> <<ExtRet(fn, <<request>>, TRUE, Some(r))>>, response |-> r]
    /\ twin' = NoTwin
    /\ UNCHANGED <<mainVars, authSent, splitVars>>

oauth_protected_resource ==
    Delegate("/.well-known/oauth-protected-resource", "handle_oauth_protected_resource")
oauth_authorization_server ==
    Delegate("/.well-known/oauth-authorization-server", "handle_oauth_authorization_server")
oauth_client_config ==
    Delegate("/.well-known/oauth-client", "handle_oauth_client_config")
oauth_token ==
    Delegate("/oauth2/token", "handle_proxy_token_exchange")
oauth_register ==
    Delegate("/oauth2/register", "handle_oauth_register")

\* /oauth2/authorize-handoff ------------------------------------------------

GoogleAuthUrl == <<"https://accounts.google.com/o/oauth2/v2/auth?">>
OtherRedirect == <<"https", ":", "/", "/", "alias.example">> \o HandoffPath

AuthorizeRequests ==
    { <<>>,
      << <<"client_id", <<"caller-client">>>> >>,
      << <<"redirect_uri", OtherRedirect>> >>,
      << <<"scope", <<"q", " ", "p">>>>, <<"state", <<"s", "1">>>> >>,
      << <<"scope", <<>>>>, <<"response_type", <<"token">>>> >> }

AuthorizeParams(request, e, scopes) ==
    LET p0 == request
        p1 == IF ~HasKey(p0, "client_id") /\ Truthy(e.GOOGLE_OAUTH_CLIENT_ID)
              THEN SetItem(p0, "client_id", e.GOOGLE_OAUTH_CLIENT_ID[1]) ELSE p0
        p2 == SetItem(p1, "response_type", <<"code">>)
        p3 == SetDefault(p2, "redirect_uri", BaseUrl \o HandoffPath)
        p4 == SetDefault(p3, "access_type", <<"offline">>)
        p5 == SetDefault(p4, "prompt", <<"consent">>)
        client_scopes == IF Truthy(Get(p5, "scope")) THEN Split(Get(p5, "scope")[1]) ELSE <<>>
        all_scopes == Range(client_scopes) \cup Range(scopes)
    IN  SetItem(p5, "scope", join(sorted(all_scopes)))

\* The value of a query parameter of a URL built by urlencode, still quoted
RECURSIVE UntilAmp(_)
UntilAmp(s) == IF s = <<>> \/ Head(s) = "&" THEN <<>> ELSE <<Head(s)>> \o UntilAmp(Tail(s))

QueryParam(url, key) ==
    LET at == {i \in 1..Len(url) - 1 :
                 url[i] = key /\ url[i + 1] = "=" /\ (i = 1 \/ url[i - 1] \in {"&"} \cup Range(GoogleAuthUrl))}
    IN  IF at = {} THEN None
        ELSE Some(UntilAmp(SubSeq(url, (CHOOSE i \in at : TRUE) + 2, Len(url))))

oauth_authorize_handoff ==
    /\ pc = "serving"
    /\ Registered("/oauth2/authorize-handoff")
    /\ \E request \in AuthorizeRequests :
         LET scopes == get_current_scopes(services_to_import)
             params == AuthorizeParams(request, env, scopes)
             google_auth_url == GoogleAuthUrl \o urlencode(params)
         IN  /\ handled' = [path |-> "/oauth2/authorize-handoff", request |-> request,
                             calls |-> << Ext("get_oauth_config", <<>>, TRUE),
                                          Ext("get_current_scopes", <<>>, TRUE) >>,
                             response |-> RedirectResponse(google_auth_url, 302)]
             /\ authSent' = QueryParam(google_auth_url, "redirect_uri")
    /\ twin' = NoTwin
    /\ UNCHANGED <<mainVars, splitVars>>

\* /oauth2callback-handoff --------------------------------------------------

StateValues == {None, Some(<<"s", "<", "1">>)}
CodeValues == {None, Some(<<"4", "/", "c">>)}
ErrorValues == {None, Some(<<"a", "&", "d">>)}

\* the query_params of a callback request
CallbackQuery(state, code, error) ==
    (IF state = None THEN <<>> ELSE << <<"state", state[1]>> >>)
    \o (IF code = None THEN <<>> ELSE << <<"code", code[1]>> >>)
    \o (IF error = None THEN <<>> ELSE << <<"error", error[1]>> >>)

CallbackRequests ==
    {CallbackQuery(st, c, e) : st \in StateValues, c \in CodeValues, e \in ErrorValues}

\* What check_client_secrets() may return
SecretsResults == {None, Some(<<"no", " ", "client", " ", "<secrets>">>)}

\* What handle_auth_callback may do: raise, or return (verified_user_id, credentials)
UserValues == {None, Some(<<"u", "&", "x">>)}
TokenValues == {None, Some(<<"y", "a", "<", "9">>)}
\* The (refresh_token, client_secret) pairs of the credentials
CredentialPairs ==
    { <<None, <<"G", "-", "1">>>>,
      <<Some(<<"1", "/", "/", "r">>), <<"G", "-", "1">>>>,
      <<Some(<<"1", "/", "/", "r">>), <<"G", "-", "2">>>> }

AuthRaised == [raised |-> TRUE, message |-> <<"invalid_grant", " ", "<", "x", ">">>,
               user |-> None, token |-> None, refresh_token |-> None,
               client_secret |-> <<>>]
AuthReturned ==
    { [raised |-> FALSE, message |-> <<>>, user |-> u, token |-> t,
       refresh_token |-> p[1], client_secret |-> p[2]] :
      u \in UserValues, t \in TokenValues, p \in CredentialPairs }

\* How the session-store block may end
StoreOutcomes == {"stored", "get_store_raised", "store_session_raised"}

Page(user_safe, token_safe, mcp_safe) ==
    <<"<!doctype html>...Authenticated as <b>">> \o user_safe
    \o <<"</b>...<pre id=\"tok\">">> \o token_safe
    \o <<"</pre>...<pre id=\"curl\">curl -H 'Authorization: Bearer ">> \o token_safe
    \o <<"' '">> \o mcp_safe
    \o <<"'</pre>...MCP endpoint: <code>">> \o mcp_safe \o <<"</code>...</html>">>

Pre(msg) == <<"<pre>">> \o html_escape(msg) \o <<"</pre>">>

StoreArgsBareState(state, auth) ==
    [user_email |-> auth.user, access_token |-> auth.token,
     refresh_token |-> auth.refresh_token, token_uri |-> "credentials.token_uri",
     client_id |-> "credentials.client_id", client_secret |-> auth.client_secret,
     scopes |-> "credentials.scopes", expiry |-> "credentials.expiry",
     session_id |-> Str(state), mcp_session_id |-> None]

StoreArgs(state, auth) ==
    [user_email |-> auth.user, access_token |-> auth.token,
     refresh_token |-> auth.refresh_token, token_uri |-> "credentials.token_uri",
     client_id |-> "credentials.client_id", client_secret |-> auth.client_secret,
     scopes |-> "credentials.scopes", expiry |-> "credentials.expiry",
     session_id |-> <<"google-">> \o Str(state), mcp_session_id |-> None]

\* The try block around get_oauth21_session_store() / store.store_session(...)
StoreCalls(state, auth, outcome) ==
    IF outcome = "get_store_raised"
    THEN << Ext("get_oauth21_session_store", <<>>, FALSE) >>
    ELSE << Ext("get_oauth21_session_store", <<>>, TRUE),
            Ext("store_session", StoreArgs(state, auth), outcome = "stored") >>

CallbackPageWithRefresh(auth) ==
    LET token == IF auth.token = None THEN <<>> ELSE auth.token[1]
        user == IF auth.user = None THEN <<>> ELSE auth.user[1]
        mcp_url == BaseUrl \o <<"/", "mcp">>
    IN  Page(html_escape(user), html_escape(token) \o html_escape(Str(auth.refresh_token)),
             html_escape(mcp_url))

\* token / token_safe / user_safe / mcp_url / content
CallbackPage(auth) ==
    LET token == IF auth.token = None THEN <<>> ELSE auth.token[1]
        user == IF auth.user = None THEN <<>> ELSE auth.user[1]
        mcp_url == BaseUrl \o <<"/", "mcp">>
    IN  Page(html_escape(user), html_escape(token), html_escape(mcp_url))

\* One run of the handler: [calls, response]
CallbackRun(request, scopes, secrets, auth, outcome) ==
    LET state == Get(request, "state")
        code == Get(request, "code")
        error == Get(request, "error")
        redirect_uri == BaseUrl \o HandoffPath
        authCall == ExtRet("handle_auth_callback",
                           [scopes |-> scopes, authorization_response |-> request,
                            redirect_uri |-> redirect_uri, session_id |-> None],
                           ~auth.raised, IF auth.raised THEN None ELSE Some(auth))
        before == << Ext("check_client_secrets", <<>>, TRUE),
                     Ext("get_oauth_config", <<>>, TRUE),
                     Ext("get_current_scopes", <<>>, TRUE), authCall >>
    IN  IF Truthy(error)
        THEN [calls |-> <<>>,
              response |-> HtmlResponse(
                  Pre(<<"Authentication failed: Google returned an error: ">> \o error[1]
                      \o <<". State: ">> \o Str(state) \o <<".">>), 400)]
        ELSE IF ~Truthy(code)
        THEN [calls |-> <<>>,
              response |-> HtmlResponse(
                  Pre(<<"Authentication failed: No authorization code received from Google.">>),
                  400)]
        ELSE IF Truthy(secrets)
        THEN [calls |-> << Ext("check_client_secrets", <<>>, TRUE) >>,
              response |-> HtmlResponse(Pre(secrets[1]), 500)]
        ELSE IF auth.raised
        THEN [calls |-> before, response |-> HtmlResponse(Pre(auth.message), 500)]
        ELSE [calls |-> before \o StoreCalls(state, auth, outcome),
              response |-> HtmlResponse(CallbackPage(auth), 200)]

Handled(request, run) ==
    [path |-> "/oauth2callback-handoff", request |-> request,
     calls |-> run.calls, response |-> run.response]

Twin(auth, run) ==
    [refresh_token |-> auth.refresh_token, client_secret |-> auth.client_secret,
     response |-> run.response]

\* The handler, run on a request, together with a second run on the same
\* request and the same external results except the credential pair.
oauth2_callback_handoff ==
    /\ pc = "serving"
    /\ Registered("/oauth2callback-handoff")
    /\ \E request \in CallbackRequests :
         LET scopes == get_current_scopes(services_to_import)
         IN  IF Truthy(Get(request, "error")) \/ ~Truthy(Get(request, "code"))
             THEN LET run == CallbackRun(request, scopes, None, AuthRaised, "stored")
                  IN  /\ handled' = Handled(request, run)
                      /\ twin' = Twin(AuthRaised, run)
             ELSE \E secrets \in SecretsResults :
                    IF Truthy(secrets)
                    THEN LET run == CallbackRun(request, scopes, secrets, AuthRaised, "stored")
                         IN  /\ handled' = Handled(request, run)
                             /\ twin' = Twin(AuthRaised, run)
                    ELSE \E auth \in {AuthRaised} \cup AuthReturned :
                           IF auth.raised
                           THEN LET run == CallbackRun(request, scopes, secrets, auth, "stored")
                                IN  /\ handled' = Handled(request, run)
                                    /\ twin' = Twin(auth, run)
                           ELSE \E outcome \in StoreOutcomes, outcome2 \in StoreOutcomes,
                                   pair2 \in CredentialPairs :
                                  LET run == CallbackRun(request, scopes, secrets, auth, outcome)
                                      auth2 == [auth EXCEPT !.refresh_token = pair2[1],
                                                            !.client_secret = pair2[2]]
                                      run2 == CallbackRun(request, scopes, secrets, auth2, outcome2)
                                  IN  /\ handled' = Handled(request, run)
                                      /\ twin' = Twin(auth2, run2)
    /\ UNCHANGED <<mainVars, authSent, splitVars>>

----------------------------------------------------------------------------
\* The program

InitRequests ==
    /\ handled = NoRequest
    /\ twin = NoTwin
    /\ authSent = None

InitMain(E) ==
    /\ pc = "reload_oauth_config"
    /\ env \in E
    /\ calls = <<>>
    /\ tool_tier = None
    /\ services_filter = None
    /\ services_to_import = <<>>
    /\ idx = 0
    /\ port = None

InitSplit ==
    /\ splitRaw = <<>>
    /\ splitOut = None

\* _split_services applied to an input, which is then rewritten by replacing
\* one of its separator runs, or by adding separators in front or behind
RECURSIVE StringsOfLen(_, _)
StringsOfLen(A, n) ==
    IF n = 0 THEN {<<>>}
    ELSE {Append(t, c) : t \in StringsOfLen(A, n - 1), c \in A}

RECURSIVE StringsUpTo(_, _)
StringsUpTo(A, n) == IF n = 0 THEN {<<>>} ELSE StringsOfLen(A, n) \cup StringsUpTo(A, n - 1)

SeparatorChars == Alphabet \cap Separators
SeparatorMixes == StringsUpTo(SeparatorChars, MaxMix) \ {<<>>}

\* i..j is a maximal run of separators of s
IsSeparatorRun(s, i, j) ==
    /\ i <= j
    /\ \A k \in i..j : s[k] \in Separators
    /\ (IF i = 1 THEN TRUE ELSE s[i - 1] \notin Separators)
    /\ (IF j = Len(s) THEN TRUE ELSE s[j + 1] \notin Separators)

InitSplitInputs ==
    /\ splitRaw \in StringsUpTo(Alphabet, MaxLen)
    /\ splitOut = None

SplitServices ==
    /\ splitOut = None
    /\ splitOut' = Some(_split_services(splitRaw))
    /\ UNCHANGED <<splitRaw, mainVars, reqVars>>

Resplit(raw) ==
    /\ splitOut # None
    /\ Len(raw) <= MaxLen + MaxMix
    /\ raw # splitRaw
    /\ splitRaw' = raw
    /\ splitOut' = Some(_split_services(raw))
    /\ UNCHANGED <<mainVars, reqVars>>

ReplaceSeparator ==
    \E i \in 1..Len(splitRaw), j \in 1..Len(splitRaw), m \in SeparatorMixes :
       /\ IsSeparatorRun(splitRaw, i, j)
       /\ Resplit(SubSeq(splitRaw, 1, i - 1) \o m \o SubSeq(splitRaw, j + 1, Len(splitRaw)))

AddLeadingSeparator ==
    \E m \in SeparatorMixes :
       /\ (IF splitRaw = <<>> THEN TRUE ELSE splitRaw[1] \notin Separators)
       /\ Resplit(m \o splitRaw)

AddTrailingSeparator ==
    \E m \in SeparatorMixes :
       /\ (IF splitRaw = <<>> THEN TRUE ELSE splitRaw[Len(splitRaw)] \notin Separators)
       /\ Resplit(splitRaw \o m)

HandleRequest ==
    \/ oauth_protected_resource \/ oauth_authorization_server \/ oauth_client_config
    \/ oauth_authorize_handoff \/ oauth_token \/ oauth_register \/ oauth2_callback_handoff

\* The whole program: main() and then the requests the server handles
Init == InitMain(ServeEnvironments) /\ InitRequests /\ InitSplit
Next == MainStep \/ HandleRequest
Spec == Init /\ [][Next]_vars

\* main() alone, under every environment
InitBoot == InitMain(Environments) /\ InitRequests /\ InitSplit
NextBoot == MainStep
SpecBoot == InitBoot /\ [][NextBoot]_vars

\* _split_services alone, on every input up to MaxLen characters
InitSplitOnly == InitMain({CHOOSE e \in ServeEnvironments : TRUE}) /\ InitRequests /\ InitSplitInputs
NextSplit == SplitServices \/ ReplaceSeparator \/ AddLeadingSeparator \/ AddTrailingSeparator
SpecSplit == InitSplitOnly /\ [][NextSplit]_vars

----------------------------------------------------------------------------
\* Properties

KeySet == {gmail, drive, calendar, docs, sheets, chat, forms, slides, tasks, search}

\* main()'s position relative to its statements
AfterEnableTools ==
    pc \in {"wrap_server_tool_method", "set_enabled_services_for_scopes", "import_tools",
            "custom_route", "port", "raised", "server_run", "serving"}
AfterImports == pc \in {"custom_route", "port", "raised", "server_run", "serving"}
MainEnded == pc \in {"raised", "serving"}

CallsNamed(name) == SelectSeq(calls, LAMBDA c : c[1] = name)

\* The place of each library function in the order main() is to call them in
OrderedNames ==
    << "reload_oauth_config", "configure_file_logging",
       "check_credentials_directory_permissions", "set_transport_mode",
       "configure_server_for_http", "set_enabled_tool_names", "wrap_server_tool_method",
       "set_enabled_services_for_scopes", "import", "filter_server_tools",
       "custom_route", "server.run" >>
Rank(name) == CHOOSE r \in 1..Len(OrderedNames) : OrderedNames[r] = name
Repeatable == {"import", "custom_route"}
OrderedCalls == SelectSeq(calls, LAMBDA c : c[1] \in Range(OrderedNames))

\* C1: the calls main() has made so far are, in this order and without a gap,
\* reload_oauth_config, configure_file_logging, check_credentials_directory_permissions
\* (exactly when not stateless), set_transport_mode("streamable-http"),
\* configure_server_for_http, set_enabled_tool_names, wrap_server_tool_method,
\* set_enabled_services_for_scopes, the imports, filter_server_tools, the seven
\* route registrations and server.run.
C1_FixedOrder ==
    LET L == OrderedCalls
    IN  /\ \A i \in 1..Len(L), j \in 1..Len(L) :
              i < j => \/ Rank(L[i][1]) < Rank(L[j][1])
                       \/ L[i][1] = L[j][1] /\ L[i][1] \in Repeatable
        /\ \A i \in 1..Len(L) : \A r \in 1..(Rank(L[i][1]) - 1) :
              \/ \E j \in 1..(i - 1) : Rank(L[j][1]) = r
              \/ OrderedNames[r] = "import"
              \/ OrderedNames[r] = "check_credentials_directory_permissions" /\ env.stateless
        /\ CallsNamed("check_credentials_directory_permissions") # <<>> => ~env.stateless
        /\ \A i \in 1..Len(L) : L[i][1] = "set_transport_mode" => L[i][2] = "streamable-http"
        /\ CallsNamed("server.run") # <<>> =>
              [i \in 1..Len(CallsNamed("custom_route")) |-> CallsNamed("custom_route")[i][2]] = Routes
        /\ pc = "serving" => calls[Len(calls)][1] = "server.run"

C1_Witness ==
    /\ pc = "serving"
    /\ env.stateless
    /\ Len(CallsNamed("import")) >= 2

\* The words of raw: its maximal runs of characters that are neither a comma
\* nor whitespace, from left to right
RunStarts(raw) ==
    {i \in 1..Len(raw) :
        raw[i] \notin Separators /\ (IF i = 1 THEN TRUE ELSE raw[i - 1] \in Separators)}
RunEnd(raw, i) ==
    CHOOSE j \in i..Len(raw) :
        /\ \A k \in i..j : raw[k] \notin Separators
        /\ (IF j = Len(raw) THEN TRUE ELSE raw[j + 1] \in Separators)
MaximalRuns(raw) ==
    [k \in 1..Cardinality(RunStarts(raw)) |->
        LET i == CHOOSE x \in RunStarts(raw) :
                    Cardinality({y \in RunStarts(raw) : y <= x}) = k
        IN  SubSeq(raw, i, RunEnd(raw, i))]

SplitIsRuns ==
    splitOut # None =>
        /\ splitOut[1] = MaximalRuns(splitRaw)
        /\ \A k \in 1..Len(splitOut[1]) :
              /\ splitOut[1][k] # <<>>
              /\ \A n \in 1..Len(splitOut[1][k]) : splitOut[1][k][n] \notin Separators

\* C2: _split_services(raw) is the sequence of the maximal runs of characters
\* of raw that are neither a comma nor whitespace, in order, none of them empty
\* or holding a separator; and rewriting a separator of the input into another
\* non-empty mix of commas and whitespace, or adding separators in front or
\* behind, leaves the result as it was.
C2_SplitServices ==
    /\ []SplitIsRuns
    /\ [][splitOut # None => splitOut' = splitOut]_vars

C2_Witness ==
    /\ splitOut = Some(<< <<"a">>, <<"a">> >>)
    /\ Len(splitRaw) = MaxLen + MaxMix
    /\ splitRaw[1] \in Separators
    /\ splitRaw[Len(splitRaw)] \in Separators

\* The services whose iteration of the import loop is over
LoopDone ==
    IF pc = "import_tools" THEN SubSeq(services_to_import, 1, idx - 1)
    ELSE IF AfterImports THEN services_to_import
    ELSE <<>>
ImportedModules == [i \in 1..Len(CallsNamed("import")) |-> CallsNamed("import")[i][2]]
Activated == {s \in KeySet : tool_imports(s) \in Range(ImportedModules)}
ScopeServices ==
    IF CallsNamed("set_enabled_services_for_scopes") = <<>> THEN {}
    ELSE Range(CallsNamed("set_enabled_services_for_scopes")[1][2])

\* C3 (as amended): the modules imported are exactly those of the entries of
\* services_to_import that are among the ten keys, in list order, an entry
\* outside the keys importing nothing; and the services whose modules were
\* activated are the services handed to set_enabled_services_for_scopes that
\* are among the ten keys.
C3_ImportsFollowKeys ==
    LET known == SelectSeq(LoopDone, LAMBDA s : s \in KeySet)
    IN  /\ ImportedModules = [i \in 1..Len(known) |-> tool_imports(known[i])]
        /\ AfterImports => Activated = ScopeServices \cap KeySet

C3_Witness ==
    /\ AfterImports
    /\ foo \in Range(services_to_import)
    /\ gmail \in Activated
    /\ Len(ImportedModules) = 1

\* C3 (as stated): the set of services handed to set_enabled_services_for_scopes
\* equals the set of services whose tool modules were activated.
C3_ScopesEqualActivated == AfterImports => ScopeServices = Activated

\* C4 (as stated): for every setting of PORT and WORKSPACE_MCP_PORT, main()
\* reaches server.run with transport streamable-http, host 0.0.0.0 and the port
\* PORT when set, otherwise WORKSPACE_MCP_PORT when set, otherwise 8000.
C4_ReachesServerRun ==
    MainEnded =>
        LET chosen == IF env.PORT # None THEN env.PORT[1]
                      ELSE IF env.WORKSPACE_MCP_PORT # None THEN env.WORKSPACE_MCP_PORT[1]
                      ELSE <<"8", "0", "0", "0">>
            run == calls[Len(calls)]
        IN  /\ run[1] = "server.run"
            /\ run[2] = "streamable-http"
            /\ run[3] = "0.0.0.0"
            /\ Some(run[4]) = int(chosen)

\* The six handlers of auth.oauth_common_handlers and the paths that use them
DelegatedTo(path) ==
    CASE path = "/.well-known/oauth-protected-resource" -> "handle_oauth_protected_resource"
      [] path = "/.well-known/oauth-authorization-server" -> "handle_oauth_authorization_server"
      [] path = "/.well-known/oauth-client" -> "handle_oauth_client_config"
      [] path = "/oauth2/token" -> "handle_proxy_token_exchange"
      [] path = "/oauth2/register" -> "handle_oauth_register"
      [] OTHER -> "none"
ExternalHandlers ==
    {"handle_oauth_authorize", "handle_proxy_token_exchange", "handle_oauth_protected_resource",
     "handle_oauth_authorization_server", "handle_oauth_client_config", "handle_oauth_register"}
HandoffPaths == {"/oauth2/authorize-handoff", "/oauth2callback-handoff"}

OneCallReturned(h) ==
    /\ Len(h.calls) = 1
    /\ h.calls[1].fn \in ExternalHandlers
    /\ h.calls[1].args = <<h.request>>
    /\ h.calls[1].ret = Some(h.response)

\* C5 (as amended): the handlers of the five paths /.well-known/oauth-protected-resource,
\* /.well-known/oauth-authorization-server, /.well-known/oauth-client, /oauth2/token
\* and /oauth2/register make exactly one call, to their external handler, with
\* the request, and return its response unchanged; the two handoff handlers
\* call none of the external handlers and build their response themselves.
C5_FiveDelegate ==
    /\ handled.path \in Range(Routes) \ HandoffPaths =>
          OneCallReturned(handled) /\ handled.calls[1].fn = DelegatedTo(handled.path)
    /\ handled.path \in HandoffPaths =>
          \A i \in 1..Len(handled.calls) : handled.calls[i].fn \notin ExternalHandlers

C5_Witness ==
    /\ handled.path = "/oauth2/token"
    /\ handled.request # <<>>
    /\ handled.response.status = 401

\* C5 (as stated): on each of the seven paths the handler makes exactly one
\* call to one external handler with the request and returns its response.
C5_AllSevenDelegate == handled.path \in Range(Routes) => OneCallReturned(handled)

StoreSessionCalls(h) == SelectSeq(h.calls, LAMBDA c : c.fn = "store_session")

\* C6: two runs of the callback handler that differ only in the credentials'
\* refresh_token and client_secret return the same status and body.
C6_ResponseIgnoresRefreshToken ==
    handled.path = "/oauth2callback-handoff" => twin.response = handled.response

C6_Witness ==
    /\ handled.path = "/oauth2callback-handoff"
    /\ handled.response.status = 200
    /\ StoreSessionCalls(handled) # <<>>
    /\ StoreSessionCalls(handled)[1].args.refresh_token = None
    /\ twin.refresh_token # None
    /\ twin.client_secret # StoreSessionCalls(handled)[1].args.client_secret

AuthCallbackCalls(h) == SelectSeq(h.calls, LAMBDA c : c.fn = "handle_auth_callback")

\* C7 (as stated): the redirect_uri in the Location of the last authorize-handoff
\* redirect equals the redirect_uri the callback passes to handle_auth_callback,
\* namely <oauth base url>/oauth2callback-handoff.
C7_RedirectUriMatches ==
    (handled.path = "/oauth2callback-handoff" /\ authSent # None
        /\ AuthCallbackCalls(handled) # <<>>) =>
        /\ AuthCallbackCalls(handled)[1].args.redirect_uri = BaseUrl \o HandoffPath
        /\ authSent[1] = quote_plus(AuthCallbackCalls(handled)[1].args.redirect_uri)

\* C8: with TOOL_TIER unset or blank, set_enabled_tool_names gets None,
\* resolve_tools_from_tier is not called and the services are the parsed TOOLS
\* list when it is non-empty, all ten keys otherwise; with a TOOL_TIER,
\* resolve_tools_from_tier gets the stripped tier and the TOOLS filter,
\* set_enabled_tool_names gets the set of the tools it returned and the
\* services are the parsed TOOLS list when non-empty, its suggestion otherwise.
C8_ToolSelection ==
    AfterEnableTools =>
        LET blank(t) == \A i \in 1..Len(t) : t[i] \in Whitespace
            tierBlank == IF env.TOOL_TIER = None THEN TRUE ELSE blank(env.TOOL_TIER[1])
            parsed == IF env.TOOLS = None THEN <<>> ELSE _split_services(env.TOOLS[1])
            filter == IF env.TOOLS = None THEN None
                      ELSE IF blank(env.TOOLS[1]) THEN None ELSE Some(parsed)
            resolved == CallsNamed("resolve_tools_from_tier")
            enabled == CallsNamed("set_enabled_tool_names")
        IN  /\ Len(enabled) = 1
            /\ IF tierBlank
               THEN /\ enabled[1][2] = None
                    /\ resolved = <<>>
                    /\ services_to_import = (IF parsed # <<>> THEN parsed ELSE tool_imports_keys)
               ELSE /\ Len(resolved) = 1
                    /\ resolved[1][2] = Strip(env.TOOL_TIER[1])
                    /\ resolved[1][3] = filter
                    /\ enabled[1][2] = Some(Range(resolved[1][4][1]))
                    /\ services_to_import = (IF parsed # <<>> THEN parsed ELSE resolved[1][4][2])

C8_Witness ==
    /\ pc = "serving"
    /\ tool_tier # None
    /\ services_filter = Some(<<>>)
    /\ services_to_import = <<gmail, foo>>

\* C9 (as amended): a 200 response of the callback handler comes after
\* handle_auth_callback returned and the session store was asked for; when the
\* store was obtained, store_session was called once, with the verified user
\* id as user_email, the token the page displays as access_token and
\* "google-<state>" as session_id, whether or not that call succeeded.
C9_StoreAttempted ==
    (handled.path = "/oauth2callback-handoff" /\ handled.response.status = 200) =>
        LET c == handled.calls
            n == Len(c)
            k == CHOOSE i \in 1..n : c[i].fn = "handle_auth_callback"
        IN  /\ \E i \in 1..n : c[i].fn = "handle_auth_callback"
            /\ c[k].ok
            /\ k < n
            /\ c[k + 1].fn = "get_oauth21_session_store"
            /\ IF c[k + 1].ok
               THEN /\ n = k + 2
                    /\ c[n].fn = "store_session"
                    /\ c[n].args.user_email = c[k].ret[1].user
                    /\ c[n].args.access_token = c[k].ret[1].token
                    /\ c[n].args.session_id = <<"google-">> \o Str(Get(handled.request, "state"))
                    /\ handled.response.body =
                         Page(html_escape(Concat(c[n].args.user_email)),
                              html_escape(Concat(c[n].args.access_token)),
                              html_escape(BaseUrl \o <<"/", "mcp">>))
               ELSE n = k + 1

C9_Witness ==
    /\ handled.path = "/oauth2callback-handoff"
    /\ handled.response.status = 200
    /\ StoreSessionCalls(handled) # <<>>
    /\ ~StoreSessionCalls(handled)[1].ok
    /\ StoreSessionCalls(handled)[1].args.access_token # None

\* C9 (as stated): every 200 response of the callback handler is preceded by
\* a store_session call that completed successfully for the displayed token.
C9_StoredBefore200 ==
    (handled.path = "/oauth2callback-handoff" /\ handled.response.status = 200) =>
        /\ StoreSessionCalls(handled) # <<>>
        /\ StoreSessionCalls(handled)[1].ok

====
